---- MODULE Spec2Model ----
(***************************************************************************)
(* Master-side control loop of the distributed PageRank node               *)
(* (lioia/sdcc, package node): the phase driver masterUpdate with its      *)
(* handlers, the work publisher masterWriteQueue, the result consumer      *)
(* masterReadQueue and the peer broadcaster masterSendUpdateToWorkers.     *)
(*                                                                         *)
(* Ranks, partial sums and the threshold are float64 in the program; they  *)
(* are small naturals here.  Goroutines are modelled by their position:    *)
(* dpc for the driver, cpc for the consumer, bc[s].pc for each broadcaster *)
(* goroutine.  A step of a goroutine between two accesses to shared state   *)
(* is one action.                                                          *)
(***************************************************************************)
EXTENDS Integers, Sequences, FiniteSets, TLC

\* ---- bounds -------------------------------------------------------------
MaxV == 2         \* vertices of a loaded graph are 1..n, n <= MaxV
MaxWorkers == 2   \* worker endpoints are 1..MaxWorkers
MaxBcast == 2     \* broadcaster goroutines running at the same time
MaxVal == 1       \* a partial sum in a Result is in 1..MaxVal
MaxThreshold == 1 \* the threshold is in 0..MaxThreshold
CDen == 2         \* c is k/CDen for k in 1..CDen-1

MaxResults == 3   \* Result messages of one phase, when their order is studied
MaxRVal == 2      \* a value in one of those Results is in 1..MaxRVal

Endpoints == 1..MaxWorkers
Vals == 1..MaxVal
Slots == 1..MaxBcast

\* ---- values -------------------------------------------------------------
Wait == "Wait"
Map == "Map"
Collect == "Collect"
Reduce == "Reduce"
Convergence == "Convergence"

EmptyMap == [x \in {} |-> 0]
FreeSlot == [pc |-> "free", crashedWorkers |-> {}, newWorkers |-> <<>>, acked |-> {}]
NoStuck == [snap |-> <<>>, i |-> 0, last |-> FALSE]

VARIABLES
    phase,      \* n.State.Phase
    graph,      \* n.State.Graph: id -> [Rank, E, InLinks]; EmptyMap is nil
    C,          \* n.State.C (numerator over CDen)
    threshold,  \* n.State.Threshold
    others,     \* n.State.Others
    Jobs,       \* n.Jobs
    Responses,  \* n.Responses
    Data,       \* n.Data, the SafeMap: id -> sum
    workQ,      \* jobs in the work queue
    resultQ,    \* Result messages in the result queue
    aborted,    \* the process has exited (FailOnError) or panicked
    dpc,        \* position of the phase driver
    subGraphs,  \* masterWriteQueue: the slice subGraphs
    jobType,    \* masterWriteQueue: the Type of the Job built by fn
    data,       \* masterCollect: the snapshot data := n.Data.Clone()
    pubCount,   \* masterWriteQueue: publishes done in the current call
    cpc,        \* position of the result consumer
    handler,    \* history: the handler of masterUpdate that acted last
    printed,    \* history: the normalised ranks masterConvergence printed (lines
                \* 181-184) if it is the handler that acted last; num/den each
    bc,         \* broadcaster goroutines, the one started last first; acked is
                \* history: the peers that answered StateUpdate in its loop
    stuck,      \* history: the broadcaster goroutine that blocked last, since
                \* the last `go`: its list of peers and the peer that failed
    folded,     \* history: job -> the pairs folded into n.Data, this dispatch
    running,    \* history: jobs were dispatched and the run has not ended
    \* Node.masterSendUpdateToWorkers with one goroutine per peer (part_001);
    \* it works on `others` too
    mpc,        \* position of the function
    gpc,        \* position of the goroutine of each peer
    wg,         \* the counter of the WaitGroup wg
    crashed,    \* the channel crashed: "open" or "closed" (it has no buffer)
    \* Layer1Node.Map (cmd/server/layer1_node.go)
    Layer2s,    \* n.Layer2s
    MapData,    \* n.MapData, as the sources of the contributions added to it:
                \* remote, the layer 2 nodes; local[i], the times SubGraphs[i]
                \* was mapped in this node
    Counter,    \* n.Counter
    Phase,      \* n.Phase
    l1pc,       \* position of Map, and the index i it received last
    l2pc,       \* position of the goroutine of each layer 2 node
    errored     \* what each goroutine sends, or sent, on the channel errored:
                \* its index if its node failed, -1 if not, 0 before

vars == <<phase, graph, C, threshold, others, Jobs, Responses, Data, workQ,
          resultQ, aborted, dpc, subGraphs, jobType, data, pubCount, cpc,
          handler, printed, bc, stuck, folded, running,
          mpc, gpc, wg, crashed,
          Layer2s, MapData, Counter, Phase, l1pc, l2pc, errored>>

concVars == <<mpc, gpc, wg, crashed>>
layer1Vars == <<Layer2s, MapData, Counter, Phase, l1pc, l2pc, errored>>

stateVars == <<phase, graph, C, threshold, others>>
counterVars == <<Jobs, Responses>>
driverVars == <<dpc, subGraphs, jobType, data, pubCount, handler, printed>>
consumerVars == <<cpc>>
bcastVars == <<bc, stuck>>

\* ---- helpers ------------------------------------------------------------
Min(a, b) == IF a <= b THEN a ELSE b
Abs(x) == IF x < 0 THEN -x ELSE x

RECURSIVE SumOver(_, _)
SumOver(f, S) ==
    IF S = {} THEN 0
    ELSE LET x == CHOOSE y \in S : TRUE IN f[x] + SumOver(f, S \ {x})

\* Go map read: the zero value for a missing key
Get(m, k) == IF k \in DOMAIN m THEN m[k] ELSE 0

\* every order in which `for id, node := range n.State.Graph` may visit
Orders(S) ==
    {o \in [1..Cardinality(S) -> S] : \A p, q \in DOMAIN o : p # q => o[p] # o[q]}

Range(s) == {s[p] : p \in DOMAIN s}

\* graph.LoadGraphResource: a ring over 1..n, every replica equal to the rank
Pred(v, n) == IF v = 1 THEN n ELSE v - 1
LoadGraphResource(n) ==
    [v \in 1..n |-> [Rank |-> 0, E |-> 2, InLinks |-> [j \in {Pred(v, n)} |-> 0]]]

\* Node.masterSendUpdateToWorkers is not running
ConcIdle ==
    /\ mpc = "idle"
    /\ gpc = <<>>
    /\ wg = 0
    /\ crashed = "open"

\* Layer1Node.Map is not running
Layer1Idle ==
    /\ Layer2s = <<>>
    /\ MapData = [remote |-> {}, local |-> <<>>]
    /\ Counter = 0
    /\ Phase = Map
    /\ l1pc = [pc |-> "idle", i |-> 0]
    /\ l2pc = <<>>
    /\ errored = <<>>

Init ==
    /\ ConcIdle
    /\ Layer1Idle
    /\ phase = Wait
    /\ graph = EmptyMap
    /\ C = 0
    /\ threshold = 0
    /\ others = <<>>
    /\ Jobs = 0
    /\ Responses = 0
    /\ Data = EmptyMap
    /\ workQ = {}
    /\ resultQ = {}
    /\ aborted = FALSE
    /\ dpc = "tick"
    /\ subGraphs = <<>>
    /\ jobType = 0
    /\ data = EmptyMap
    /\ pubCount = 0
    /\ cpc = "recv"
    /\ handler = "none"
    /\ printed = EmptyMap
    /\ bc = [s \in Slots |-> FreeSlot]
    /\ stuck = NoStuck
    /\ folded = EmptyMap
    /\ running = FALSE

\* ---- masterSendUpdateToWorkers, one goroutine per `go` statement ----------

\* `go masterSendUpdateToWorkers(n)`: the goroutine exists, it has not run yet
\* (it takes slot 1; the goroutines still running move up into the first gap)
Spawn(b) ==
    LET gap == CHOOSE t \in Slots : b[t].pc = "free" /\ \A u \in Slots : b[u].pc = "free" => t <= u
    IN [t \in Slots |-> IF t = 1 THEN [FreeSlot EXCEPT !.pc = "start"]
                        ELSE IF t <= gap THEN b[t - 1]
                        ELSE b[t]]

CanSpawn == \E s \in Slots : bc[s].pc = "free"

\* the goroutine started by the last `go masterSendUpdateToWorkers(n)` has
\* returned: it is neither running nor blocked
BroadcastReturned == bc[1].pc = "free" /\ ~stuck.last

\* the second loop: the entries of o whose index is not in crashedWorkers
RECURSIVE RemoveCrashed(_, _, _)
RemoveCrashed(o, crashedWorkers, k) ==
    IF k > Len(o) THEN <<>>
    ELSE IF k \in crashedWorkers THEN RemoveCrashed(o, crashedWorkers, k + 1)
    ELSE <<o[k]>> \o RemoveCrashed(o, crashedWorkers, k + 1)

\* lines 200-212: `range n.State.Others` is evaluated once, then NodeCall and
\* StateUpdate for each peer in turn.  At the first peer that fails the
\* goroutine executes `crashed <- i` on an unbuffered channel that has no
\* receiver: it blocks there for ever, no later peer is attempted and the
\* goroutine never gets to the lines below.  (Index i counts from 1 here.)
BcastRun(s) ==
    /\ ~aborted
    /\ bc[s].pc = "start"
    /\ \E i \in 0..Len(others) :    \* the first peer that fails, 0 if none does
         IF i = 0
         THEN /\ bc' = [bc EXCEPT ![s].pc = "collect", ![s].acked = Range(others)]
              /\ UNCHANGED stuck
         ELSE /\ bc' = [bc EXCEPT ![s] = FreeSlot]
              /\ stuck' = [snap |-> others, i |-> i, last |-> (s = 1)]
    /\ UNCHANGED <<stateVars, counterVars, Data, workQ, resultQ, aborted, driverVars,
                   consumerVars, folded, running>>
    /\ UNCHANGED <<concVars, layer1Vars>>

\* lines 215-228: close(crashed); the collecting loop finds the closed channel
\* empty; the second loop reads n.State.Others again
BcastCollect(s) ==
    /\ ~aborted
    /\ bc[s].pc = "collect"
    /\ bc' = [bc EXCEPT ![s].pc = "write",
                        ![s].newWorkers = RemoveCrashed(others, bc[s].crashedWorkers, 1)]
    /\ UNCHANGED <<stateVars, counterVars, Data, workQ, resultQ, aborted, driverVars,
                   consumerVars, stuck, folded, running>>
    /\ UNCHANGED <<concVars, layer1Vars>>

\* line 229: n.State.Others = newWorkers, and the goroutine returns
BcastWrite(s) ==
    /\ ~aborted
    /\ bc[s].pc = "write"
    /\ others' = bc[s].newWorkers
    /\ bc' = [bc EXCEPT ![s] = FreeSlot]
    /\ UNCHANGED <<phase, graph, C, threshold, counterVars, Data, workQ, resultQ, aborted,
                   driverVars, consumerVars, stuck, folded, running>>
    /\ UNCHANGED <<concVars, layer1Vars>>

masterSendUpdateToWorkers ==
    \E s \in Slots : BcastRun(s) \/ BcastCollect(s) \/ BcastWrite(s)

\* ---- masterWriteQueue -----------------------------------------------------

\* the number of workers, not capped by the number of vertices
NumberOfJobsNoCap(o, g) == Len(o)

\* lines 271-274
NumberOfJobs(o, g) ==
    IF Len(o) >= Cardinality(DOMAIN g) THEN Cardinality(DOMAIN g) ELSE Len(o)

\* lines 275-283: the p-th vertex visited goes to subGraphs[(p-1) % numberOfJobs]
RoundRobin(order, numberOfJobs) ==
    [k \in 1..numberOfJobs |->
        {order[p] : p \in {q \in DOMAIN order : (q - 1) % numberOfJobs = k - 1}}]

\* the Job fn builds for subGraphs[k]: lines 74-85 (Map) and 130-144 (Reduce)
MakeJob(k) ==
    IF jobType = 0
    THEN [Type |-> 0, job |-> k,
          MapData |-> [id \in subGraphs[k] |-> graph[id].InLinks],
          ReduceData |-> EmptyMap]
    ELSE [Type |-> 1, job |-> k,
          MapData |-> EmptyMap,
          ReduceData |-> [id \in subGraphs[k] |-> [Sum |-> Get(data, id), E |-> graph[id].E]]]

\* lines 271-283.  With numberOfJobs = 0 and a graph that is not empty,
\* subGraphs[0] is an index out of range: the process panics.
WriteQueuePartition ==
    /\ ~aborted
    /\ dpc = "partition"
    /\ LET numberOfJobs == NumberOfJobs(others, graph) IN
         IF numberOfJobs = 0 /\ DOMAIN graph # {}
         THEN /\ aborted' = TRUE
              /\ UNCHANGED <<dpc, subGraphs>>
         ELSE /\ \E order \in Orders(DOMAIN graph) :
                    subGraphs' = RoundRobin(order, numberOfJobs)
              /\ dpc' = "publish"
              /\ UNCHANGED aborted
    /\ pubCount' = 0
    /\ folded' = EmptyMap
    /\ UNCHANGED <<stateVars, counterVars, Data, workQ, resultQ, jobType, data,
                   handler, printed, consumerVars, bcastVars, running>>
    /\ UNCHANGED <<concVars, layer1Vars>>

\* utils.FailOnError with an error: the process exits
FailOnError ==
    aborted' = TRUE

\* lines 287-306, one iteration: Marshal and PublishWithContext; an error of
\* either is returned to masterUpdate, lines 23 and 33
WriteQueuePublish ==
    /\ ~aborted
    /\ dpc = "publish"
    /\ pubCount < Len(subGraphs)
    /\ \E ok \in BOOLEAN :
         IF ok
         THEN /\ workQ' = workQ \cup {MakeJob(pubCount + 1)}
              /\ pubCount' = pubCount + 1
              /\ UNCHANGED aborted
         ELSE /\ FailOnError
              /\ UNCHANGED <<workQ, pubCount>>
    /\ UNCHANGED <<stateVars, counterVars, Data, resultQ, dpc, subGraphs, jobType, data,
                   handler, printed, consumerVars, bcastVars, folded, running>>
    /\ UNCHANGED <<concVars, layer1Vars>>

\* n.Jobs written as soon as one job is published
WriteQueueCommitEarly ==
    /\ ~aborted
    /\ dpc = "publish"
    /\ pubCount >= 1
    /\ Jobs' = Len(subGraphs)
    /\ phase' = IF jobType = 0 THEN Map ELSE Reduce
    /\ dpc' = "tick"
    /\ subGraphs' = <<>>
    /\ jobType' = 0
    /\ data' = EmptyMap
    /\ pubCount' = 0
    /\ running' = TRUE
    /\ UNCHANGED <<graph, C, threshold, others, Responses, Data, workQ, resultQ, aborted,
                   handler, printed, consumerVars, bcastVars, folded>>
    /\ UNCHANGED <<concVars, layer1Vars>>

\* line 307, then line 89 (Wait) or line 149 (Collect)
WriteQueueCommit ==
    /\ ~aborted
    /\ dpc = "publish"
    /\ pubCount = Len(subGraphs)
    /\ Jobs' = Len(subGraphs)
    /\ phase' = IF jobType = 0 THEN Map ELSE Reduce
    /\ dpc' = "tick"
    /\ subGraphs' = <<>>
    /\ jobType' = 0
    /\ data' = EmptyMap
    /\ pubCount' = 0
    /\ running' = TRUE
    /\ UNCHANGED <<graph, C, threshold, others, Responses, Data, workQ, resultQ, aborted,
                   handler, printed, consumerVars, bcastVars, folded>>
    /\ UNCHANGED <<concVars, layer1Vars>>

masterWriteQueue == WriteQueuePartition \/ WriteQueuePublish \/ WriteQueueCommit

\* ---- masterWait -----------------------------------------------------------

\* a reset that clears the configuration and keeps the phase it finds
NodeResetKeepsPhase ==
    /\ graph' = EmptyMap
    /\ C' = 0
    /\ threshold' = 0
    /\ UNCHANGED phase
    /\ others' = <<>>

\* "Node Reset", lines 61-66 and 186-191: n.State is a new proto.State with
\* Phase Wait and nothing else, so it has no Graph and no Others
NodeReset ==
    /\ graph' = EmptyMap
    /\ C' = 0
    /\ threshold' = 0
    /\ phase' = Wait
    /\ others' = <<>>

\* the configuration stored in a new State, which has no Others
MasterWaitConfigDropsOthers ==
    /\ ~aborted
    /\ dpc = "tick"
    /\ phase = Wait
    /\ DOMAIN graph = {}
    /\ \E n \in 1..MaxV, c \in 1..(CDen - 1), t \in 0..MaxThreshold :
         /\ graph' = LoadGraphResource(n)
         /\ C' = c
         /\ threshold' = t
    /\ Data' = EmptyMap
    /\ others' = <<>>
    /\ handler' = "config"
    /\ printed' = EmptyMap
    /\ UNCHANGED <<phase, counterVars, workQ, resultQ, aborted, dpc, subGraphs,
                   jobType, data, pubCount, consumerVars, bcastVars, folded, running>>
    /\ UNCHANGED <<concVars, layer1Vars>>

\* lines 93-115: the configuration is asked for and stored
MasterWaitConfig ==
    /\ ~aborted
    /\ dpc = "tick"
    /\ phase = Wait
    /\ DOMAIN graph = {}
    /\ \E n \in 1..MaxV, c \in 1..(CDen - 1), t \in 0..MaxThreshold :
         /\ graph' = LoadGraphResource(n)
         /\ C' = c
         /\ threshold' = t
    /\ Data' = EmptyMap
    /\ handler' = "config"
    /\ printed' = EmptyMap
    /\ UNCHANGED <<phase, others, counterVars, workQ, resultQ, aborted, dpc, subGraphs,
                   jobType, data, pubCount, consumerVars, bcastVars, folded, running>>
    /\ UNCHANGED <<concVars, layer1Vars>>

\* the single-node path without the node reset of lines 61-66
MasterWaitSingleNoReset ==
    /\ ~aborted
    /\ dpc = "tick"
    /\ phase = Wait
    /\ DOMAIN graph # {}
    /\ Len(others) = 0
    /\ UNCHANGED stateVars
    /\ Jobs' = 0
    /\ Responses' = 0
    /\ Data' = EmptyMap
    /\ running' = FALSE
    /\ handler' = "single"
    /\ printed' = EmptyMap
    /\ UNCHANGED <<workQ, resultQ, aborted, dpc, subGraphs, jobType, data, pubCount,
                   consumerVars, bcastVars, folded>>
    /\ UNCHANGED <<concVars, layer1Vars>>

\* lines 54-72: no other node; SingleNodePageRank, print, node reset
MasterWaitSingle ==
    /\ ~aborted
    /\ dpc = "tick"
    /\ phase = Wait
    /\ DOMAIN graph # {}
    /\ Len(others) = 0
    /\ NodeReset
    /\ Jobs' = 0
    /\ Responses' = 0
    /\ Data' = EmptyMap
    /\ running' = FALSE
    /\ handler' = "single"
    /\ printed' = EmptyMap
    /\ UNCHANGED <<workQ, resultQ, aborted, dpc, subGraphs, jobType, data, pubCount,
                   consumerVars, bcastVars, folded>>
    /\ UNCHANGED <<concVars, layer1Vars>>

\* lines 50, 54, 73: the broadcaster is started with `go`, and masterWait goes
\* on to masterWriteQueue without waiting for it
MasterWaitBroadcast ==
    /\ ~aborted
    /\ dpc = "tick"
    /\ phase = Wait
    /\ DOMAIN graph # {}
    /\ Len(others) # 0
    /\ CanSpawn
    /\ bc' = Spawn(bc)
    /\ stuck' = NoStuck
    /\ jobType' = 0
    /\ dpc' = "partition"
    /\ handler' = "wait"
    /\ printed' = EmptyMap
    /\ UNCHANGED <<stateVars, counterVars, Data, workQ, resultQ, aborted, subGraphs, data,
                   pubCount, consumerVars, folded, running>>
    /\ UNCHANGED <<concVars, layer1Vars>>

masterWait == MasterWaitConfig \/ MasterWaitSingle \/ MasterWaitBroadcast

\* ---- masterCollect --------------------------------------------------------

\* the branch with n.Jobs cleared on the way to Convergence
MasterCollectLocalClearsJobs ==
    /\ ~aborted
    /\ dpc = "tick"
    /\ phase = Collect
    /\ Len(others) = 0
    /\ phase' = Convergence
    /\ Jobs' = 0
    /\ handler' = "collectLocal"
    /\ printed' = EmptyMap
    /\ UNCHANGED <<graph, C, threshold, others, Responses, Data, workQ, resultQ, aborted,
                   dpc, subGraphs, jobType, data, pubCount, consumerVars, bcastVars,
                   folded, running>>
    /\ UNCHANGED <<concVars, layer1Vars>>

\* lines 119-126: the local `ranks` is computed and dropped
MasterCollectLocal ==
    /\ ~aborted
    /\ dpc = "tick"
    /\ phase = Collect
    /\ Len(others) = 0
    /\ phase' = Convergence
    /\ handler' = "collectLocal"
    /\ printed' = EmptyMap
    /\ UNCHANGED <<graph, C, threshold, others, counterVars, Data, workQ, resultQ, aborted,
                   dpc, subGraphs, jobType, data, pubCount, consumerVars, bcastVars,
                   folded, running>>
    /\ UNCHANGED <<concVars, layer1Vars>>

\* the handler without n.Data.Reset(), line 129
MasterCollectBroadcastKeepsData ==
    /\ ~aborted
    /\ dpc = "tick"
    /\ phase = Collect
    /\ Len(others) # 0
    /\ CanSpawn
    /\ bc' = Spawn(bc)
    /\ stuck' = NoStuck
    /\ data' = Data
    /\ jobType' = 1
    /\ dpc' = "partition"
    /\ handler' = "collect"
    /\ printed' = EmptyMap
    /\ UNCHANGED <<stateVars, counterVars, Data, workQ, resultQ, aborted, subGraphs,
                   pubCount, consumerVars, folded, running>>
    /\ UNCHANGED <<concVars, layer1Vars>>

\* lines 127-129
MasterCollectBroadcast ==
    /\ ~aborted
    /\ dpc = "tick"
    /\ phase = Collect
    /\ Len(others) # 0
    /\ CanSpawn
    /\ bc' = Spawn(bc)
    /\ stuck' = NoStuck
    /\ data' = Data
    /\ Data' = EmptyMap
    /\ jobType' = 1
    /\ dpc' = "partition"
    /\ handler' = "collect"
    /\ printed' = EmptyMap
    /\ UNCHANGED <<stateVars, counterVars, workQ, resultQ, aborted, subGraphs, pubCount,
                   consumerVars, folded, running>>
    /\ UNCHANGED <<concVars, layer1Vars>>

masterCollect == MasterCollectLocal \/ MasterCollectBroadcast

\* ---- masterConvergence ----------------------------------------------------

\* lines 156-162: ranks after the commit of the SafeMap values
Committed(g, d) ==
    [id \in DOMAIN g |-> IF id \in DOMAIN d THEN [g[id] EXCEPT !.Rank = d[id]] ELSE g[id]]

\* the handler without lines 164-168: the replicas keep the old ranks
RefreshInLinksSkipped(g) ==
    g

\* lines 164-168: every replica in InLinks takes the rank of its source
RefreshInLinks(g) ==
    [id \in DOMAIN g |->
        [g[id] EXCEPT !.InLinks = [j \in DOMAIN g[id].InLinks |-> g[j].Rank]]]

\* lines 155-160
ConvergenceValue(g, d) ==
    SumOver([id \in DOMAIN d |-> Abs(d[id] - g[id].Rank)], DOMAIN d)

\* the ranks as they are, each over 1: lines 181-184 without the division
NormalizeNone(g) ==
    [id \in DOMAIN g |-> [num |-> g[id].Rank, den |-> 1]]

\* lines 177-184: rankSum is the sum of the ranks, and every rank is divided by
\* it; the quotient Rank / rankSum is kept as the fraction num/den
Normalize(g) ==
    LET rankSum == SumOver([id \in DOMAIN g |-> g[id].Rank], DOMAIN g)
    IN [id \in DOMAIN g |-> [num |-> g[id].Rank, den |-> rankSum]]

\* the handler without lines 192-193: the counters survive the end of the run
masterConvergenceKeepsCounters ==
    /\ ~aborted
    /\ dpc = "tick"
    /\ phase = Convergence
    /\ IF ~(DOMAIN Data \subseteq DOMAIN graph)
       THEN /\ aborted' = TRUE
            /\ UNCHANGED <<stateVars, counterVars, Data, running, handler, printed>>
       ELSE /\ UNCHANGED aborted
            /\ Data' = EmptyMap
            /\ IF ConvergenceValue(graph, Data) > threshold
               THEN /\ phase' = Wait
                    /\ graph' = RefreshInLinks(Committed(graph, Data))
                    /\ handler' = "iterate"
                    /\ printed' = EmptyMap
                    /\ UNCHANGED <<C, threshold, others, counterVars, running>>
               ELSE /\ NodeReset
                    /\ UNCHANGED counterVars
                    /\ running' = FALSE
                    /\ handler' = "converged"
                    /\ printed' = Normalize(Committed(graph, Data))
    /\ UNCHANGED <<workQ, resultQ, dpc, subGraphs, jobType, data, pubCount,
                   consumerVars, bcastVars, folded>>
    /\ UNCHANGED <<concVars, layer1Vars>>

\* lines 154-196.  n.State.Graph[id] of an id that is not in the graph is a nil
\* pointer: the process panics.
masterConvergence ==
    /\ ~aborted
    /\ dpc = "tick"
    /\ phase = Convergence
    /\ IF ~(DOMAIN Data \subseteq DOMAIN graph)
       THEN /\ aborted' = TRUE
            /\ UNCHANGED <<stateVars, counterVars, Data, running, handler, printed>>
       ELSE /\ UNCHANGED aborted
            /\ Data' = EmptyMap
            /\ IF ConvergenceValue(graph, Data) > threshold
               THEN /\ phase' = Wait
                    /\ graph' = RefreshInLinks(Committed(graph, Data))
                    /\ handler' = "iterate"
                    /\ printed' = EmptyMap
                    /\ UNCHANGED <<C, threshold, others, counterVars, running>>
               ELSE /\ NodeReset
                    /\ Jobs' = 0
                    /\ Responses' = 0
                    /\ running' = FALSE
                    /\ handler' = "converged"
                    /\ printed' = Normalize(Committed(graph, Data))
    /\ UNCHANGED <<workQ, resultQ, dpc, subGraphs, jobType, data, pubCount,
                   consumerVars, bcastVars, folded>>
    /\ UNCHANGED <<concVars, layer1Vars>>

\* ---- masterUpdate: the two waiting phases ---------------------------------

\* the Map case without `n.Responses = 0`
MasterMapTickNoReset ==
    /\ ~aborted
    /\ dpc = "tick"
    /\ phase = Map
    /\ IF Jobs = Responses
       THEN /\ phase' = Collect
            /\ folded' = EmptyMap
            /\ handler' = "mapDone"
            /\ printed' = EmptyMap
       ELSE UNCHANGED <<phase, folded, handler, printed>>
    /\ UNCHANGED <<graph, C, threshold, others, Jobs, Responses, Data, workQ, resultQ,
                   aborted, dpc, subGraphs, jobType, data, pubCount, consumerVars,
                   bcastVars, running>>
    /\ UNCHANGED <<concVars, layer1Vars>>

\* the Map case clearing n.Responses at every tick
MasterMapTickClearsResponses ==
    /\ ~aborted
    /\ dpc = "tick"
    /\ phase = Map
    /\ Responses' = 0
    /\ IF Jobs = Responses
       THEN /\ phase' = Collect
            /\ folded' = EmptyMap
            /\ handler' = "mapDone"
            /\ printed' = EmptyMap
       ELSE UNCHANGED <<phase, folded, handler, printed>>
    /\ UNCHANGED <<graph, C, threshold, others, Jobs, Data, workQ, resultQ, aborted,
                   dpc, subGraphs, jobType, data, pubCount, consumerVars, bcastVars,
                   running>>
    /\ UNCHANGED <<concVars, layer1Vars>>

\* lines 24-30
MasterMapTick ==
    /\ ~aborted
    /\ dpc = "tick"
    /\ phase = Map
    /\ IF Jobs = Responses
       THEN /\ Responses' = 0
            /\ phase' = Collect
            /\ folded' = EmptyMap
            /\ handler' = "mapDone"
            /\ printed' = EmptyMap
       ELSE UNCHANGED <<Responses, phase, folded, handler, printed>>
    /\ UNCHANGED <<graph, C, threshold, others, Jobs, Data, workQ, resultQ, aborted,
                   dpc, subGraphs, jobType, data, pubCount, consumerVars, bcastVars,
                   running>>
    /\ UNCHANGED <<concVars, layer1Vars>>

\* the Reduce case as a copy of the Map case: the phase goes to Collect
MasterReduceTickToCollect ==
    /\ ~aborted
    /\ dpc = "tick"
    /\ phase = Reduce
    /\ IF Jobs = Responses
       THEN /\ Responses' = 0
            /\ phase' = Collect
            /\ folded' = EmptyMap
            /\ handler' = "reduceDone"
            /\ printed' = EmptyMap
       ELSE UNCHANGED <<Responses, phase, folded, handler, printed>>
    /\ UNCHANGED <<graph, C, threshold, others, Jobs, Data, workQ, resultQ, aborted,
                   dpc, subGraphs, jobType, data, pubCount, consumerVars, bcastVars,
                   running>>
    /\ UNCHANGED <<concVars, layer1Vars>>

\* lines 34-40
MasterReduceTick ==
    /\ ~aborted
    /\ dpc = "tick"
    /\ phase = Reduce
    /\ IF Jobs = Responses
       THEN /\ Responses' = 0
            /\ phase' = Convergence
            /\ folded' = EmptyMap
            /\ handler' = "reduceDone"
            /\ printed' = EmptyMap
       ELSE UNCHANGED <<Responses, phase, folded, handler, printed>>
    /\ UNCHANGED <<graph, C, threshold, others, Jobs, Data, workQ, resultQ, aborted,
                   dpc, subGraphs, jobType, data, pubCount, consumerVars, bcastVars,
                   running>>
    /\ UNCHANGED <<concVars, layer1Vars>>

masterUpdate ==
    \/ masterWait
    \/ masterWriteQueue
    \/ MasterMapTick
    \/ masterCollect
    \/ MasterReduceTick
    \/ masterConvergence

\* ---- masterReadQueue ------------------------------------------------------

\* utils.FailOnNack: the delivery is negatively acknowledged without requeue
FailOnNack ==
    cpc' = "recv"

\* a SafeMap that stores the value of the pair in place of adding it
IncrementLastWins(d, values) ==
    [id \in DOMAIN d \cup DOMAIN values |->
        IF id \in DOMAIN values THEN values[id] ELSE d[id]]

\* SafeMap.Increment for every pair of the Result: lines 332-334
Increment(d, values) ==
    [id \in DOMAIN d \cup DOMAIN values |-> Get(d, id) + Get(values, id)]

\* the loop without `continue` after a decode failure: the delivery is
\* acknowledged and counted with nothing folded
ConsumerFoldNoContinue ==
    /\ ~aborted
    /\ cpc = "recv"
    /\ \E m \in resultQ :
         /\ resultQ' = resultQ \ {m}
         /\ IF ~m.ok
            THEN /\ cpc' = "ack"
                 /\ UNCHANGED <<Data, folded>>
            ELSE /\ Data' = Increment(Data, m.Values)
                 /\ folded' = [k \in DOMAIN folded \cup {m.job} |->
                                 IF k = m.job THEN m.Values ELSE folded[k]]
                 /\ cpc' = "ack"
    /\ UNCHANGED <<stateVars, counterVars, workQ, aborted, driverVars, bcastVars, running>>
    /\ UNCHANGED <<concVars, layer1Vars>>

\* the loop counting a delivery that does not decode
ConsumerFoldCountsUndecoded ==
    /\ ~aborted
    /\ cpc = "recv"
    /\ \E m \in resultQ :
         /\ resultQ' = resultQ \ {m}
         /\ IF ~m.ok
            THEN /\ FailOnNack
                 /\ Responses' = Responses + 1
                 /\ UNCHANGED <<Data, folded>>
            ELSE /\ Data' = Increment(Data, m.Values)
                 /\ folded' = [k \in DOMAIN folded \cup {m.job} |->
                                 IF k = m.job THEN m.Values ELSE folded[k]]
                 /\ cpc' = "ack"
                 /\ UNCHANGED Responses
    /\ UNCHANGED <<stateVars, Jobs, workQ, aborted, driverVars, bcastVars, running>>
    /\ UNCHANGED <<concVars, layer1Vars>>

\* lines 324-334: the next delivery; one that does not decode is dropped, the
\* pairs of one that does are folded into n.Data
ConsumerFold ==
    /\ ~aborted
    /\ cpc = "recv"
    /\ \E m \in resultQ :
         /\ resultQ' = resultQ \ {m}
         /\ IF ~m.ok
            THEN /\ FailOnNack
                 /\ UNCHANGED <<Data, folded>>
            ELSE /\ Data' = Increment(Data, m.Values)
                 /\ folded' = [k \in DOMAIN folded \cup {m.job} |->
                                 IF k = m.job THEN m.Values ELSE folded[k]]
                 /\ cpc' = "ack"
    /\ UNCHANGED <<stateVars, counterVars, workQ, aborted, driverVars, bcastVars, running>>
    /\ UNCHANGED <<concVars, layer1Vars>>

\* the loop without line 343: a delivery acknowledged is not counted
ConsumerAckNoCount ==
    /\ ~aborted
    /\ cpc = "ack"
    /\ \E ok \in BOOLEAN :
         IF ok
         THEN cpc' = "recv"
         ELSE FailOnNack
    /\ UNCHANGED <<stateVars, counterVars, Data, workQ, resultQ, aborted, driverVars,
                   bcastVars, folded, running>>
    /\ UNCHANGED <<concVars, layer1Vars>>

\* lines 338-343
ConsumerAck ==
    /\ ~aborted
    /\ cpc = "ack"
    /\ \E ok \in BOOLEAN :
         IF ok
         THEN /\ Responses' = Responses + 1
              /\ cpc' = "recv"
         ELSE /\ FailOnNack
              /\ UNCHANGED Responses
    /\ UNCHANGED <<stateVars, Jobs, Data, workQ, resultQ, aborted, driverVars, bcastVars,
                   folded, running>>
    /\ UNCHANGED <<concVars, layer1Vars>>

masterReadQueue == ConsumerFold \/ ConsumerAck

\* ---- the collaborators ----------------------------------------------------

\* a worker takes a Job from the work queue and publishes one Result for it,
\* well formed or not
WorkerReply ==
    /\ ~aborted
    /\ \E j \in workQ :
         /\ workQ' = workQ \ {j}
         /\ \E ok \in BOOLEAN :
              IF ok
              THEN \E values \in [DOMAIN j.MapData \cup DOMAIN j.ReduceData -> Vals] :
                     resultQ' = resultQ \cup {[job |-> j.job, ok |-> TRUE, Values |-> values]}
              ELSE resultQ' = resultQ \cup {[job |-> j.job, ok |-> FALSE, Values |-> EmptyMap]}
    /\ UNCHANGED <<stateVars, counterVars, Data, aborted, driverVars, consumerVars,
                   bcastVars, folded, running>>
    /\ UNCHANGED <<concVars, layer1Vars>>

\* the NodeJoin RPC served by the master: the endpoint joins the roster
NodeJoin ==
    /\ ~aborted
    /\ Len(others) < MaxWorkers
    /\ LET e == CHOOSE x \in Endpoints \ Range(others) :
                    \A y \in Endpoints \ Range(others) : x <= y
       IN others' = Append(others, e)
    /\ UNCHANGED <<phase, graph, C, threshold, counterVars, Data, workQ, resultQ, aborted,
                   driverVars, consumerVars, bcastVars, folded, running>>
    /\ UNCHANGED <<concVars, layer1Vars>>

Next ==
    \/ masterUpdate
    \/ masterReadQueue
    \/ masterSendUpdateToWorkers
    \/ WorkerReply
    \/ NodeJoin

Spec == Init /\ [][Next]_vars

\* the Go scheduler runs every goroutine that can run; the collaborators
\* (workers, joining nodes) are under no obligation
FairSpec ==
    /\ Spec
    /\ WF_vars(masterUpdate)
    /\ WF_vars(masterReadQueue)
    /\ WF_vars(masterSendUpdateToWorkers)

\* ---- every job answered by one well-formed Result, every Ack succeeding ----

\* a step that adds no Result that does not decode and is not a failed Ack
Answered ==
    /\ \A m \in resultQ' \ resultQ : m.ok
    /\ ~(cpc = "ack" /\ cpc' = "recv" /\ Responses' = Responses)

AnsweredNext ==
    \/ masterUpdate /\ Answered
    \/ masterReadQueue /\ Answered
    \/ masterSendUpdateToWorkers /\ Answered
    \/ WorkerReply /\ Answered
    \/ NodeJoin /\ Answered

\* the driver polls every 500 ms and the consumer ranges over its channel: the
\* Go scheduler runs both; the workers answer every job
AnsweredSpec ==
    /\ Init
    /\ [][AnsweredNext]_vars
    /\ WF_vars(masterUpdate /\ Answered)
    /\ WF_vars(masterReadQueue /\ Answered)
    /\ WF_vars(WorkerReply /\ Answered)

\* ---- the consumer alone, on the Results of one phase -------------------------

\* what a delivery may hold: it does not decode, or it decodes to pairs
\* (id, value) for some vertices of the graph
ResultBodies ==
    {[ok |-> FALSE, Values |-> EmptyMap]} \cup
    {[ok |-> TRUE, Values |-> v] :
        v \in UNION {[D -> 1..MaxRVal] : D \in (SUBSET (1..MaxV)) \ {{}}}}

\* the master waits in Map for the Results of n jobs, all in the result queue
ReorderInit ==
    /\ ConcIdle
    /\ Layer1Idle
    /\ phase = Map
    /\ graph = LoadGraphResource(MaxV)
    /\ C = 1
    /\ threshold = 0
    /\ others = <<1>>
    /\ \E n \in 1..MaxResults : \E b \in [1..n -> ResultBodies] :
          /\ Jobs = n
          /\ resultQ = {[job |-> k, ok |-> b[k].ok, Values |-> b[k].Values] : k \in 1..n}
    /\ Responses = 0
    /\ Data = EmptyMap
    /\ workQ = {}
    /\ aborted = FALSE
    /\ dpc = "tick"
    /\ subGraphs = <<>>
    /\ jobType = 0
    /\ data = EmptyMap
    /\ pubCount = 0
    /\ cpc = "recv"
    /\ handler = "wait"
    /\ printed = EmptyMap
    /\ bc = [s \in Slots |-> FreeSlot]
    /\ stuck = NoStuck
    /\ folded = EmptyMap
    /\ running = TRUE

ReorderNext == masterReadQueue

ReorderSpec == ReorderInit /\ [][ReorderNext]_vars

\* ==== Node.masterSendUpdateToWorkers, one goroutine per peer (part_001) ====

MaxPeers == 3
MaxLayer2 == 3

\* the node as main leaves it, but for `others`
NodeAtRest ==
    /\ phase = Wait
    /\ graph = EmptyMap
    /\ C = 0
    /\ threshold = 0
    /\ Jobs = 0
    /\ Responses = 0
    /\ Data = EmptyMap
    /\ workQ = {}
    /\ resultQ = {}
    /\ aborted = FALSE
    /\ dpc = "tick"
    /\ subGraphs = <<>>
    /\ jobType = 0
    /\ data = EmptyMap
    /\ pubCount = 0
    /\ cpc = "recv"
    /\ handler = "none"
    /\ printed = EmptyMap
    /\ bc = [s \in Slots |-> FreeSlot]
    /\ stuck = NoStuck
    /\ folded = EmptyMap
    /\ running = FALSE

nodeVars == <<phase, graph, C, threshold, Jobs, Responses, Data, workQ, resultQ,
              dpc, subGraphs, jobType, data, pubCount, cpc, handler, printed,
              bc, stuck, folded, running>>

\* the function is entered with n peers in n.State.Others
ConcInit ==
    /\ NodeAtRest
    /\ Layer1Idle
    /\ \E n \in 0..MaxPeers :
          /\ others = [i \in 1..n |-> i]
          /\ gpc = [i \in 1..n |-> "new"]
          /\ mpc = IF n = 0 THEN "wgDone" ELSE "spawn"
    /\ wg = 0
    /\ crashed = "open"

\* the first goroutine that does not exist yet
FirstNew(pcs) == CHOOSE i \in DOMAIN pcs : pcs[i] = "new" /\ \A j \in 1..(i - 1) : pcs[j] # "new"

\* lines 205-217: wg.Add(1) and the `go` statement for the next peer
ConcSpawn ==
    /\ ~aborted
    /\ mpc = "spawn"
    /\ LET i == FirstNew(gpc) IN
          /\ gpc' = [gpc EXCEPT ![i] = "call"]
          /\ mpc' = IF i = Len(others) THEN "wgDone" ELSE "spawn"
    /\ wg' = wg + 1
    /\ UNCHANGED <<nodeVars, others, aborted, crashed, layer1Vars>>

\* line 220: wg.Done() takes 1 from the counter and does not wait; a counter
\* below 0 panics ("sync: negative WaitGroup counter")
ConcWgDone ==
    /\ ~aborted
    /\ mpc = "wgDone"
    /\ IF wg = 0
          THEN aborted' = TRUE /\ UNCHANGED <<wg, mpc>>
          ELSE wg' = wg - 1 /\ mpc' = "close" /\ UNCHANGED aborted
    /\ UNCHANGED <<nodeVars, others, gpc, crashed, layer1Vars>>

\* line 222: close(crashed)
ConcClose ==
    /\ ~aborted
    /\ mpc = "close"
    /\ crashed' = "closed"
    /\ mpc' = "collect"
    /\ UNCHANGED <<nodeVars, others, aborted, gpc, wg, layer1Vars>>

\* lines 225-236: the range over the closed channel, which has no buffer,
\* receives nothing; every peer goes into newWorkers
ConcCollect ==
    /\ ~aborted
    /\ mpc = "collect"
    /\ crashed = "closed"
    /\ LET crashedWorkers == {}
       IN others' = SelectSeq(others, LAMBDA v : \A i \in crashedWorkers : others[i] # v)
    /\ mpc' = "returned"
    /\ UNCHANGED <<nodeVars, aborted, gpc, wg, crashed, layer1Vars>>

\* lines 208-211: utils.NodeCall(url) succeeds, or fails and the goroutine goes
\* to `crashed <- i`
ConcCall(i) ==
    /\ ~aborted
    /\ gpc[i] = "call"
    /\ \E err \in BOOLEAN : gpc' = [gpc EXCEPT ![i] = IF err THEN "send" ELSE "update"]
    /\ UNCHANGED <<nodeVars, others, aborted, mpc, wg, crashed, layer1Vars>>

\* lines 212-215: StateUpdate succeeds and the goroutine ends (it never calls
\* wg.Done), or fails and the goroutine goes to `crashed <- i`
ConcUpdate(i) ==
    /\ ~aborted
    /\ gpc[i] = "update"
    /\ \E err \in BOOLEAN : gpc' = [gpc EXCEPT ![i] = IF err THEN "send" ELSE "done"]
    /\ UNCHANGED <<nodeVars, others, aborted, mpc, wg, crashed, layer1Vars>>

\* lines 210, 214: `crashed <- i`. While the channel is open the send waits for
\* a receiver, and the function receives only after close; once the channel is
\* closed the send panics ("send on closed channel")
ConcSend(i) ==
    /\ ~aborted
    /\ gpc[i] = "send"
    /\ crashed = "closed"
    /\ aborted' = TRUE
    /\ UNCHANGED <<nodeVars, others, mpc, gpc, wg, crashed, layer1Vars>>

ConcGoroutine == \E i \in DOMAIN gpc : ConcCall(i) \/ ConcUpdate(i) \/ ConcSend(i)

ConcNext ==
    \/ ConcSpawn
    \/ ConcWgDone
    \/ ConcClose
    \/ ConcCollect
    \/ ConcGoroutine

ConcSpec == ConcInit /\ [][ConcNext]_vars

\* ==== Layer1Node.Map (cmd/server/layer1_node.go) ============================

\* Map is entered with n layer 2 nodes, SubGraphs[i] for the i-th of them
Layer1Init ==
    /\ NodeAtRest
    /\ others = <<>>
    /\ mpc = "idle"
    /\ gpc = <<>>
    /\ crashed = "open"
    /\ wg = 0
    /\ \E n \in 0..MaxLayer2 :
          /\ Layer2s = [i \in 1..n |-> i]
          /\ l2pc = [i \in 1..n |-> "new"]
          /\ errored = [i \in 1..n |-> 0]
          /\ MapData = [remote |-> {}, local |-> [i \in 1..n |-> 0]]
          /\ l1pc = [pc |-> IF n = 0 THEN "range" ELSE "spawn", i |-> 0]
    /\ Counter = 0
    /\ Phase = Map

\* n.MapData and n.Counter are written by the goroutines and by Map with no
\* lock: a write made while another writer stands at its own write is a data
\* race, which can keep both writes, lose one, or stop the process ("fatal
\* error: concurrent map writes")
RaceOutcomes(racing) == IF racing THEN {"ok", "lost", "fatal"} ELSE {"ok"}

\* lines 54-80: wg.Add(1) and the `go` statement for the next layer 2 node
L1Spawn ==
    /\ ~aborted
    /\ l1pc.pc = "spawn"
    /\ LET i == FirstNew(l2pc) IN
          /\ l2pc' = [l2pc EXCEPT ![i] = "call"]
          /\ l1pc' = [l1pc EXCEPT !.pc = IF i = Len(l2pc) THEN "range" ELSE "spawn"]
    /\ wg' = wg + 1
    /\ UNCHANGED <<nodeVars, others, aborted, mpc, gpc, crashed,
                   Layer2s, MapData, Counter, Phase, errored>>

\* lines 61-66: lib.Layer2ClientCall succeeds, or fails: `errored <- i`
L2Call(i) ==
    /\ ~aborted
    /\ l2pc[i] = "call"
    /\ \E err \in BOOLEAN :
          /\ l2pc' = [l2pc EXCEPT ![i] = IF err THEN "send" ELSE "compute"]
          /\ errored' = [errored EXCEPT ![i] = IF err THEN i ELSE 0]
    /\ UNCHANGED <<nodeVars, others, aborted, concVars,
                   Layer2s, MapData, Counter, Phase, l1pc>>

\* lines 67-73: ComputeMap succeeds, or fails: `errored <- i`
L2ComputeMap(i) ==
    /\ ~aborted
    /\ l2pc[i] = "compute"
    /\ \E err \in BOOLEAN :
          /\ l2pc' = [l2pc EXCEPT ![i] = IF err THEN "send" ELSE "fold"]
          /\ errored' = [errored EXCEPT ![i] = IF err THEN i ELSE 0]
    /\ UNCHANGED <<nodeVars, others, aborted, concVars,
                   Layer2s, MapData, Counter, Phase, l1pc>>

\* lines 74-78: the contributions of the node are added to n.MapData, n.Counter
\* is incremented, then `errored <- -1`
L2Fold(i) ==
    /\ ~aborted
    /\ l2pc[i] = "fold"
    /\ \E r \in RaceOutcomes(l1pc.pc = "local" \/ \E j \in DOMAIN l2pc \ {i} : l2pc[j] = "fold") :
          /\ aborted' = (r = "fatal")
          /\ MapData' = IF r = "ok" THEN [MapData EXCEPT !.remote = @ \cup {i}] ELSE MapData
          /\ Counter' = IF r = "ok" THEN Counter + 1 ELSE Counter
          /\ l2pc' = [l2pc EXCEPT ![i] = IF r = "fatal" THEN "fold" ELSE "send"]
          /\ errored' = [errored EXCEPT ![i] = IF r = "fatal" THEN 0 ELSE -1]
    /\ UNCHANGED <<nodeVars, others, concVars, Layer2s, Phase, l1pc>>

\* line 58: the deferred wg.Done() of a goroutine whose send was received
L2Return(i) ==
    /\ ~aborted
    /\ l2pc[i] = "return"
    /\ l2pc' = [l2pc EXCEPT ![i] = "done"]
    /\ wg' = wg - 1
    /\ UNCHANGED <<nodeVars, others, aborted, mpc, gpc, crashed,
                   Layer2s, MapData, Counter, Phase, l1pc, errored>>

\* line 81: `for i := range errored` receives what a goroutine sends (the
\* channel has no buffer: the send and the receive are one step); line 83
L1Recv ==
    /\ ~aborted
    /\ l1pc.pc = "range"
    /\ \E j \in DOMAIN l2pc :
          /\ l2pc[j] = "send"
          /\ l2pc' = [l2pc EXCEPT ![j] = "return"]
          /\ l1pc' = IF errored[j] # -1 THEN [pc |-> "remove", i |-> errored[j]]
                                        ELSE [pc |-> "range", i |-> 0]
    /\ UNCHANGED <<nodeVars, others, aborted, concVars,
                   Layer2s, MapData, Counter, Phase, errored>>

\* append(s[:i], s[i+1:]...) of Go, i counted from 1 here: the element at
\* place i of the slice as it is now is removed; s[i+1:] panics ("slice bounds
\* out of range") when the slice has fewer than i elements
RemoveAt(s, i) == [k \in 1..(Len(s) - 1) |-> IF k < i THEN s[k] ELSE s[k + 1]]

\* line 85
L1Remove ==
    /\ ~aborted
    /\ l1pc.pc = "remove"
    /\ IF l1pc.i > Len(Layer2s)
          THEN aborted' = TRUE /\ UNCHANGED <<Layer2s, l1pc>>
          ELSE /\ Layer2s' = RemoveAt(Layer2s, l1pc.i)
               /\ l1pc' = [l1pc EXCEPT !.pc = "local"]
               /\ UNCHANGED aborted
    /\ UNCHANGED <<nodeVars, others, concVars, MapData, Counter, Phase, l2pc, errored>>

\* lines 87-92: Map computes the contributions of SubGraphs[i] itself and adds
\* them to n.MapData
L1MapLocal ==
    /\ ~aborted
    /\ l1pc.pc = "local"
    /\ \E r \in RaceOutcomes(\E j \in DOMAIN l2pc : l2pc[j] = "fold") :
          /\ aborted' = (r = "fatal")
          /\ MapData' = IF r = "ok" THEN [MapData EXCEPT !.local[l1pc.i] = @ + 1] ELSE MapData
          /\ l1pc' = IF r = "fatal" THEN l1pc ELSE [pc |-> "range", i |-> 0]
    /\ UNCHANGED <<nodeVars, others, concVars, Layer2s, Counter, Phase, l2pc, errored>>

\* lines 95-98, after the range loop: wg.Wait(), n.Counter = 0, n.Phase =
\* Collect. A range over a channel ends when the channel is closed, and no
\* statement closes errored: l1pc.pc is never "wait", so this is no step of Map
L1Finish ==
    /\ ~aborted
    /\ l1pc.pc = "wait"
    /\ wg = 0
    /\ Counter' = 0
    /\ Phase' = Collect
    /\ l1pc' = [pc |-> "returned", i |-> 0]
    /\ UNCHANGED <<nodeVars, others, aborted, concVars, Layer2s, MapData, l2pc, errored>>

L2Goroutine == \E i \in DOMAIN l2pc : L2Call(i) \/ L2ComputeMap(i) \/ L2Fold(i) \/ L2Return(i)

Layer1Next ==
    \/ L1Spawn
    \/ L2Goroutine
    \/ L1Recv
    \/ L1Remove
    \/ L1MapLocal

Layer1Spec == Layer1Init /\ [][Layer1Next]_vars

\* ==== properties ===========================================================

TypeOK ==
    /\ phase \in {Wait, Map, Collect, Reduce, Convergence}
    /\ DOMAIN graph \subseteq 1..MaxV
    /\ Jobs \in 0..MaxV
    /\ Responses \in 0..MaxV
    /\ DOMAIN Data \subseteq 1..MaxV
    /\ aborted \in BOOLEAN
    /\ dpc \in {"tick", "partition", "publish"}
    /\ cpc \in {"recv", "ack"}
    /\ handler \in {"none", "config", "single", "wait", "mapDone", "collectLocal",
                    "collect", "reduceDone", "iterate", "converged"}
    /\ running \in BOOLEAN

\* the driver is between two ticks: the next thing it does is read the phase
AtTick == dpc = "tick" /\ ~aborted

\* C1: at every tick of the phase driver, in every phase,
\* 0 <= Responses <= Jobs
C1_ResponsesWithinJobs ==
    AtTick => (0 <= Responses /\ Responses <= Jobs)

\* a tick in Reduce finds both jobs of the dispatch answered
C1_Witness ==
    AtTick /\ phase = Reduce /\ Jobs = 2 /\ Responses = 2

\* the sum n.Data holds for id when exactly the pairs in f were folded
FoldedSum(f, id) == SumOver([k \in DOMAIN f |-> Get(f[k], id)], DOMAIN f)

\* C2: when a tick in Map or Reduce finds Responses = Jobs, the Result of every
\* job published for the phase was folded, and n.Data holds every pair of it
C2_CountedAfterFolded ==
    (AtTick /\ phase \in {Map, Reduce} /\ Responses = Jobs) =>
        /\ DOMAIN folded = 1..Jobs
        /\ \A id \in DOMAIN graph : Get(Data, id) = FoldedSum(folded, id)

\* a tick in Map finds two jobs answered
C2_Witness ==
    AtTick /\ phase = Map /\ Jobs = 2 /\ Responses = 2 /\ DOMAIN folded = {1, 2}

\* C3 (as claimed): once the driver has partitioned the graph, in Wait or in
\* Collect, the broadcaster it started has returned
C3_BroadcastBeforePartition ==
    (dpc = "publish") => BroadcastReturned

\* C4 (as claimed): the step that ends a broadcast in which peer i failed leaves
\* `others` equal to the previous list without peer i, in the original order
C4_SurvivorsReplaceOthers ==
    [][(stuck' # stuck /\ stuck' # NoStuck) =>
          others' = RemoveCrashed(stuck'.snap, {stuck'.i}, 1)]_vars

\* C5 (as claimed): no broadcaster goroutine stops for ever before it returns,
\* whichever peers fail
C5_BroadcastReturns ==
    stuck = NoStuck

\* C6 (as claimed): whenever masterWriteQueue computes the number of jobs K,
\* 1 <= K <= min(|others|, |graph|)
C6_JobsInRange ==
    (dpc = "partition" /\ ~aborted) =>
        LET K == NumberOfJobs(others, graph) IN
          1 <= K /\ K <= Min(Len(others), Cardinality(DOMAIN graph))

\* C7: the K subgraphs of a dispatch are non-empty and pairwise disjoint, and
\* their union is the vertex set of the graph
C7_SubGraphsPartition ==
    (dpc = "publish") =>
        /\ \A k \in DOMAIN subGraphs : subGraphs[k] # {}
        /\ \A k, l \in DOMAIN subGraphs : k # l => subGraphs[k] \cap subGraphs[l] = {}
        /\ UNION Range(subGraphs) = DOMAIN graph

\* two vertices dealt out to two workers
C7_Witness ==
    dpc = "publish" /\ Len(subGraphs) = 2 /\ Cardinality(DOMAIN graph) = 2

\* C8: n.Jobs is written with K only by masterWriteQueue, after K publishes;
\* a publish that fails ends the run with n.Jobs and the phase as they were
C8_JobsAfterAllPublishes ==
    [][/\ (Jobs' # Jobs /\ Jobs' # 0) => (dpc = "publish" /\ dpc' = "tick")
       /\ (dpc = "publish" /\ dpc' = "tick") =>
             (pubCount = Len(subGraphs) /\ Jobs' = pubCount /\ ~aborted')
       /\ (dpc = "publish" /\ ~aborted /\ aborted') =>
             (Jobs' = Jobs /\ phase' = phase)]_vars

\* the second of two publishes failed: the run is over, in Wait, with no jobs
C8_Witness ==
    aborted /\ dpc = "publish" /\ pubCount = 1 /\ Len(subGraphs) = 2
        /\ phase = Wait /\ Jobs = 0

PhaseChanges ==
    {<<Wait, Map>>, <<Map, Collect>>, <<Collect, Reduce>>, <<Collect, Convergence>>,
     <<Reduce, Convergence>>, <<Convergence, Wait>>}

\* C9: the phase changes only along Wait->Map, Map->Collect, Collect->Reduce,
\* Collect->Convergence (with `others` empty), Reduce->Convergence and
\* Convergence->Wait
C9_PhaseTransitions ==
    [][phase' # phase =>
          /\ <<phase, phase'>> \in PhaseChanges
          /\ (phase = Collect /\ phase' = Convergence) => Len(others) = 0]_vars

\* Convergence was reached, and there is no worker
C9_Witness ==
    phase = Convergence /\ Len(others) = 0 /\ running

\* C10 (as claimed): phase = Wait exactly when the graph is empty or no run is
\* in progress
C10_WaitIffIdle ==
    (phase = Wait) <=> (DOMAIN graph = {} \/ ~running)

\* C10 (amended): if the graph is empty or no run is in progress, phase = Wait
C10_IdleImpliesWait ==
    (DOMAIN graph = {} \/ ~running) => phase = Wait

\* a run with workers has ended: no graph, no run, and a broadcaster of it is
\* still around
C10_Witness ==
    /\ phase = Wait /\ DOMAIN graph = {} /\ ~running
    /\ \E s \in Slots : bc[s].pc # "free"

\* a step of the phase driver changes one of these
driverOwned == <<phase, graph, C, threshold, Jobs, dpc, subGraphs, jobType, pubCount, handler>>

\* C11: masterConvergence with a delta above the threshold sets the phase to
\* Wait and keeps the vertices, c, the threshold and `others`; otherwise it
\* leaves a fresh Wait State with no graph, Jobs = 0 and Responses = 0; the
\* SafeMap is a new one afterwards
C11_ConvergenceOutcome ==
    [][(phase = Convergence /\ phase' # phase) =>
          /\ phase' = Wait
          /\ Data' = EmptyMap
          /\ IF ConvergenceValue(graph, Data) > threshold
             THEN /\ DOMAIN graph' = DOMAIN graph
                  /\ DOMAIN graph' # {}
                  /\ \A id \in DOMAIN graph : graph'[id].E = graph[id].E
                  /\ C' = C
                  /\ threshold' = threshold
                  /\ others' = others
                  /\ Jobs' = Jobs
             ELSE /\ graph' = EmptyMap
                  /\ C' = 0
                  /\ threshold' = 0
                  /\ Jobs' = 0
                  /\ Responses' = 0]_vars

\* a run of two jobs per phase has converged: nothing is left of it
C11_Witness ==
    /\ handler = "converged" /\ phase = Wait /\ graph = EmptyMap
    /\ Jobs = 0 /\ Responses = 0 /\ Data = EmptyMap /\ ~running

\* C12: masterCollect with `others` empty publishes nothing, leaves Jobs as it
\* is and sets the phase to Convergence; no dispatch completes with zero jobs
C12_CollectWithoutWorkers ==
    [][/\ (phase = Collect /\ dpc = "tick" /\ Len(others) = 0
              /\ driverOwned' # driverOwned) =>
            (phase' = Convergence /\ dpc' = "tick" /\ workQ' = workQ /\ Jobs' = Jobs)
       /\ (dpc = "publish" /\ dpc' = "tick") => Jobs' >= 1]_vars

\* the Collect handler found no worker and went to Convergence, the two Map
\* jobs counted
C12_Witness ==
    handler = "collectLocal" /\ phase = Convergence /\ Jobs = 2 /\ ~aborted

\* C13: masterWait with a graph and `others` empty publishes nothing and ends
\* in Wait with no graph, Jobs = 0, Responses = 0 and an empty SafeMap
C13_SingleNodeWait ==
    [][(phase = Wait /\ dpc = "tick" /\ DOMAIN graph # {} /\ Len(others) = 0
          /\ driverOwned' # driverOwned) =>
            /\ phase' = Wait
            /\ dpc' = "tick"
            /\ graph' = EmptyMap
            /\ Jobs' = 0
            /\ Responses' = 0
            /\ Data' = EmptyMap
            /\ workQ' = workQ]_vars

\* the single-node path has run
C13_Witness ==
    /\ handler = "single" /\ phase = Wait /\ graph = EmptyMap
    /\ Jobs = 0 /\ Responses = 0 /\ Data = EmptyMap

\* C14 (as claimed): with others = [w1, w2] and w2 failing in the broadcast
\* started last, a dispatch partitioned after that failure finds
\* others = [w1] and builds one subgraph
C14_FailedPeerDropped ==
    [][(stuck.last /\ stuck.snap = <<1, 2>> /\ stuck.i = 2
          /\ dpc = "partition" /\ dpc' = "publish") =>
            (others = <<1>> /\ Len(subGraphs') = 1)]_vars

\* C15 (as claimed): when a broadcaster goroutine writes its survivor list and
\* returns, every endpoint in `others` answered a StateUpdate of its loop
C15_RemainingAcknowledged ==
    [][\A s \in Slots :
          (bc[s].pc = "write" /\ bc'[s].pc = "free") =>
              Range(others') \subseteq bc[s].acked]_vars

\* C16 (as claimed): no step of the phase driver and no step of the result
\* consumer changes `others`
C16_OthersOnlyByBroadcaster ==
    [][(driverOwned' # driverOwned \/ cpc' # cpc) => others' = others]_vars

\* C17 (as claimed): the consumer counts no Result while masterWriteQueue is
\* still publishing, that is before n.Jobs is written for the dispatch
C17_JobsBeforeResponses ==
    [][Responses' = Responses + 1 => dpc # "publish"]_vars

\* every replica of a rank in InLinks equals the rank of its source vertex
InLinksAgree(g) ==
    \A v \in DOMAIN g : \A j \in DOMAIN g[v].InLinks :
        j \in DOMAIN g /\ g[v].InLinks[j] = g[j].Rank

\* C18: at every change of the phase from Wait to Map the replicas in InLinks
\* agree with the ranks, and so do the InLinks in the Map jobs published
C18_InLinksAgreeAtMap ==
    [][(phase = Wait /\ phase' = Map) =>
          /\ InLinksAgree(graph')
          /\ \A j \in workQ' : \A v \in DOMAIN j.MapData :
                \A u \in DOMAIN j.MapData[v] : j.MapData[v][u] = graph'[u].Rank]_vars

\* the Map phase of a second iteration: the ranks are those committed by the
\* first, and the replicas follow
C18_Witness ==
    /\ phase = Map /\ handler = "wait" /\ ~aborted
    /\ \E v \in DOMAIN graph : graph[v].Rank # 0
    /\ \A v \in DOMAIN graph : \A j \in DOMAIN graph[v].InLinks : graph[v].InLinks[j] # 0

\* n.Data after the Results f[o[1]], ..., f[o[k]] were folded in that order
RECURSIVE FoldInOrder(_, _, _)
FoldInOrder(f, o, k) ==
    IF k = 0 THEN EmptyMap ELSE Increment(FoldInOrder(f, o, k - 1), f[o[k]])

C20_TerminatedIsIdle ==
    [][(phase = Wait /\ DOMAIN graph = {} /\ dpc = "tick"
          /\ <<driverOwned, Responses, Data, workQ>>' # <<driverOwned, Responses, Data, workQ>>) =>
            /\ DOMAIN graph' # {}
            /\ handler' = "config"
            /\ <<phase, Jobs, Responses, others, Data, workQ, dpc>>'
                  = <<phase, Jobs, Responses, others, Data, workQ, dpc>>]_vars

\* a run with workers has ended, and the configuration of the next one was
\* stored: a joined worker is still in `others`, nothing else has changed
C20_Witness ==
    /\ handler = "config" /\ phase = Wait /\ DOMAIN graph # {}
    /\ stuck # NoStuck /\ ~running
    /\ Len(others) = 1 /\ Jobs = 0 /\ Responses = 0 /\ Data = EmptyMap

\* C21: a delivery that does not decode is taken from the queue for good; it
\* changes neither n.Data nor n.Responses, and the consumer is at the next
\* delivery
C21_UndecodableDropped ==
    [][\A m \in resultQ :
          (~m.ok /\ m \notin resultQ') =>
              /\ Data' = Data
              /\ folded' = folded
              /\ Responses' = Responses
              /\ cpc' = "recv"]_vars

\* the only Result of the Map phase did not decode: it is gone, nothing was
\* folded and nothing was counted
C21_Witness ==
    /\ AtTick /\ phase = Map /\ Jobs = 1 /\ workQ = {} /\ resultQ = {}
    /\ cpc = "recv" /\ Responses = 0 /\ Data = EmptyMap /\ folded = EmptyMap

\* C22: the ranks masterConvergence prints when the run has converged are
\* fractions of one non-zero rankSum, and they sum to 1
C22_NormalizedSumIsOne ==
    (handler = "converged") =>
        /\ DOMAIN printed # {}
        /\ \A id \in DOMAIN printed :
              /\ printed[id].den # 0
              /\ SumOver([v \in DOMAIN printed |-> printed[v].num], DOMAIN printed)
                    = printed[id].den

\* a graph of two vertices has converged
C22_Witness ==
    /\ handler = "converged" /\ DOMAIN printed = {1, 2}
    /\ \A id \in DOMAIN printed : printed[id].num >= 1

\* C24: from a state in Map or Reduce with Responses # Jobs, no step publishes
\* a job or changes what the driver owns; n.Responses and n.Data change only
\* in a step of the consumer, `others` only in a step of a broadcaster or by
\* a join
C24_WaitingTickIdle ==
    [][(phase \in {Map, Reduce} /\ dpc = "tick" /\ Responses # Jobs) =>
          /\ driverOwned' = driverOwned
          /\ workQ' \subseteq workQ
          /\ (Responses' # Responses \/ Data' # Data) => cpc' # cpc
          /\ others' # others => (bc' # bc \/ Len(others') = Len(others) + 1)]_vars

\* the driver waits in Reduce, one of two Results counted
C24_Witness ==
    AtTick /\ phase = Reduce /\ Jobs = 2 /\ Responses = 1 /\ cpc = "recv"

\* C26 (as claimed): when masterCollect found `others` empty and the run goes
\* on, masterConvergence commits c * n.Data[i] + (1 - c) * e(i) as the rank
\* of i (c is C / CDen)
C26_LocalRankCommitted ==
    [][(phase = Convergence /\ handler = "collectLocal" /\ handler' = "iterate") =>
          \A id \in DOMAIN graph :
              CDen * graph'[id].Rank = C * Get(Data, id) + (CDen - C) * graph[id].E]_vars

\* C27 (as claimed): while the driver waits in Map or Reduce and the consumer
\* is between two deliveries, the Results folded into n.Data are as many as
\* n.Responses counts
C27_DataOnlyCounted ==
    (AtTick /\ phase \in {Map, Reduce} /\ cpc = "recv") =>
        /\ Cardinality(DOMAIN folded) = Responses
        /\ \A id \in DOMAIN graph : Get(Data, id) = FoldedSum(folded, id)

C25_PhasesComplete ==
    /\ (phase = Map) ~> (phase = Collect)
    /\ (phase = Reduce) ~> (phase = Convergence)

\* the Reduce phase of two jobs is over: both Results were counted
C25_Witness ==
    phase = Convergence /\ handler = "reduceDone" /\ Jobs = 2 /\ Responses = 0
        /\ workQ = {} /\ resultQ = {}

\* C23: in the broadcaster with one goroutine per peer, the channel crashed is
\* closed only when every goroutine has finished, and no goroutine stands at
\* a send on the closed channel
C23_CloseAfterGoroutines ==
    (crashed = "closed") => \A i \in DOMAIN gpc : gpc[i] = "done"

\* C29: Layer1Node.Map never stops short of its end: until it has set
\* Counter = 0 and Phase = Collect and returned, one of its steps can be taken
C29_MapTerminates ==
    (l1pc.pc \notin {"idle", "returned"} /\ ~aborted) =>
        \/ ENABLED Layer1Next
        \/ ENABLED L1Finish

\* the layer 2 nodes whose goroutine reported a failure
Failed == {i \in DOMAIN errored : errored[i] = i}

\* every goroutine has reported and Map has handled every report
ReportsHandled ==
    /\ l1pc.pc = "range"
    /\ DOMAIN l2pc # {}
    /\ \A i \in DOMAIN l2pc : l2pc[i] \in {"return", "done"}

\* C30: a removal is always of an element the slice has, and when Map has
\* handled the reports of a round, Layer2s holds exactly the nodes that did not
\* fail and the subgraph of each failed node was mapped locally exactly once
C30_FailedRemovedAndMappedOnce ==
    /\ (l1pc.pc = "remove") => l1pc.i <= Len(Layer2s)
    /\ ReportsHandled =>
          /\ Layer2s = SelectSeq([i \in DOMAIN l2pc |-> i], LAMBDA v : v \notin Failed)
          /\ \A i \in DOMAIN l2pc : MapData.local[i] = IF i \in Failed THEN 1 ELSE 0

====
